---- MODULE Spec2Model ----
(***************************************************************************)
(* Model of joystick.go of telloterm: the device profiles, setupJoystick   *)
(* (profile selection), and readJoystick (the poll loop: read, stick       *)
(* normalisation, hand-off to stickChan, edge detection and dispatch to    *)
(* the drone, store of the previous state, sleep).                         *)
(***************************************************************************)
EXTENDS Integers, Sequences, FiniteSets, TLC

(***************************************************************************)
(* Bounds of the model.                                                    *)
(***************************************************************************)
\* number of poll cycles the loop is followed for
MaxCycles == 3
\* capacity of the stick channel (the channel is made by the drone library)
ChanCap == 1
\* highest physical button bit the device drives
MaxBit == 20
\* number of physical axes the device reports (AxisData has this length)
NumAxes == 5

(***************************************************************************)
(* Logical axes, buttons and features (the iota constants).                *)
(***************************************************************************)
axLeftX == 0
axLeftY == 1
axRightX == 2
axRightY == 3

btnX == 0
btnCircle == 1
btnTriangle == 2
btnSquare == 3
btnL1 == 4
btnL2 == 5
btnL3 == 6
btnR1 == 7
btnR2 == 8
btnR3 == 9
btnDL == 10
btnDR == 11
btnDU == 12
btnDD == 13

flipsEnabled == 0

deadZone == 2000

(***************************************************************************)
(* A Go slice literal with keyed elements: its length is the highest key   *)
(* plus one and the elements no key names are the zero value.  A slice is  *)
(* a sequence here, element i of the slice at position i+1.                *)
(***************************************************************************)
MaxKey(kv) == CHOOSE k \in {p[1] : p \in kv} : \A p \in kv : p[1] <= k

KeyedSlice(kv, zero) ==
    [i \in 1..(MaxKey(kv) + 1) |->
        IF \E p \in kv : p[1] = i - 1
        THEN (CHOOSE p \in kv : p[1] = i - 1)[2]
        ELSE zero]

\* s[i] does not fault
InRange(s, i) == i >= 0 /\ i < Len(s)

\* s[i], for an index in range
At(s, i) == s[i + 1]

(***************************************************************************)
(* The device profiles.                                                    *)
(***************************************************************************)
dualShock4Config ==
    [axes |-> KeyedSlice({<<axLeftX, 0>>, <<axLeftY, 1>>, <<axRightX, 3>>, <<axRightY, 4>>}, 0),
     buttons |-> KeyedSlice({<<btnX, 0>>, <<btnCircle, 1>>, <<btnTriangle, 2>>, <<btnSquare, 3>>,
                             <<btnL1, 4>>, <<btnL2, 6>>, <<btnR1, 5>>, <<btnR2, 7>>}, 0),
     features |-> KeyedSlice({<<flipsEnabled, FALSE>>}, FALSE)]

eightBitDoSF30Pro ==
    [axes |-> KeyedSlice({<<axLeftX, 0>>, <<axLeftY, 1>>, <<axRightX, 2>>, <<axRightY, 3>>}, 0),
     buttons |-> KeyedSlice({<<btnX, 0>>, <<btnCircle, 1>>, <<btnTriangle, 3>>, <<btnSquare, 2>>,
                             <<btnL1, 4>>, <<btnL2, 6>>, <<btnR1, 5>>, <<btnR2, 7>>,
                             <<btnDL, 13>>, <<btnDR, 14>>, <<btnDU, 15>>, <<btnDD, 16>>}, 0),
     features |-> KeyedSlice({<<flipsEnabled, TRUE>>}, FALSE)]

dualShock4ConfigWin ==
    [axes |-> KeyedSlice({<<axLeftX, 0>>, <<axLeftY, 1>>, <<axRightX, 2>>, <<axRightY, 3>>}, 0),
     buttons |-> KeyedSlice({<<btnX, 1>>, <<btnCircle, 2>>, <<btnTriangle, 3>>, <<btnSquare, 0>>,
                             <<btnL1, 4>>, <<btnL2, 6>>, <<btnR1, 5>>, <<btnR2, 7>>}, 0),
     features |-> KeyedSlice({<<flipsEnabled, FALSE>>}, FALSE)]

tflightHotasXConfig ==
    [axes |-> KeyedSlice({<<axLeftX, 4>>, <<axLeftY, 2>>, <<axRightX, 0>>, <<axRightY, 1>>}, 0),
     buttons |-> KeyedSlice({<<btnR1, 0>>, <<btnL1, 1>>, <<btnR3, 2>>, <<btnL3, 3>>,
                             <<btnSquare, 4>>, <<btnX, 5>>, <<btnCircle, 6>>, <<btnTriangle, 7>>,
                             <<btnR2, 8>>, <<btnL2, 9>>}, 0),
     features |-> KeyedSlice({<<flipsEnabled, FALSE>>}, FALSE)]

tflightSteamControllerConfig ==
    [axes |-> KeyedSlice({<<axLeftX, 0>>, <<axLeftY, 1>>, <<axRightX, 2>>, <<axRightY, 3>>}, 0),
     buttons |-> KeyedSlice({<<btnR1, 7>>, <<btnL1, 6>>, <<btnR3, 14>>, <<btnL3, 13>>,
                             <<btnSquare, 4>>, <<btnX, 2>>, <<btnCircle, 3>>, <<btnTriangle, 5>>,
                             <<btnR2, 9>>, <<btnL2, 8>>,
                             <<btnDL, 19>>, <<btnDR, 20>>, <<btnDU, 17>>, <<btnDD, 18>>}, 0),
     features |-> KeyedSlice({<<flipsEnabled, TRUE>>}, FALSE)]

\* the zero value of joystickConfig: jsConfig before a profile is assigned
zeroConfig == [axes |-> <<>>, buttons |-> <<>>, features |-> <<>>]

(***************************************************************************)
(* Go integer arithmetic.                                                  *)
(***************************************************************************)
\* int16(x): the low 16 bits of x, as a signed value
Narrow16(x) == ((x + 32768) % 65536) - 32768

\* -x computed in int16
Neg16(x) == Narrow16(0 - x)

\* a / b of Go for b > 0: the quotient truncated toward zero
Quo(a, b) == IF a >= 0 THEN a \div b ELSE 0 - ((0 - a) \div b)

\* intAbs computed without the 16-bit wrap of the negation
intAbsWide(x) == IF x < 0 THEN 0 - x ELSE x

intAbs(x) == IF x < 0 THEN Neg16(x) ELSE x

\* buttons & (1 << i) != 0, buttons a uint32
BitSet(buttons, i) == i < 32 /\ (buttons \div (2 ^ i)) % 2 = 1

(***************************************************************************)
(* The stick normaliser: the steps of readJoystick on one axis.            *)
(***************************************************************************)
\* an X axis: the sentinel is clamped, any other reading is narrowed
StickX(raw) == IF raw = 32768 THEN 32767 ELSE Narrow16(raw)

\* StickY without the clamp of the sentinel
StickYNoClamp(raw) == Neg16(Narrow16(raw))

\* a Y axis: the same, inverted
StickY(raw) == IF raw = 32768 THEN 0 - 32767 ELSE Neg16(Narrow16(raw))

\* DeadZoneFilter testing the value instead of its magnitude
DeadZonePositiveOnly(v) == IF v >= 0 /\ v < deadZone THEN 0 ELSE v

DeadZoneFilter(v) == IF intAbs(v) < deadZone THEN 0 ELSE v

\* PrecisionScale rounding down instead of toward zero
PrecisionScaleFloor(v) == v \div 3

PrecisionScale(v) == Quo(v, 3)

\* FilteredSticks with the left stick's axes going to Lx and Ly
FilteredSticksStraight(cfg, st) ==
    [Lx |-> DeadZoneFilter(StickX(At(st.AxisData, At(cfg.axes, axLeftX)))),
     Ly |-> DeadZoneFilter(StickY(At(st.AxisData, At(cfg.axes, axLeftY)))),
     Rx |-> DeadZoneFilter(StickX(At(st.AxisData, At(cfg.axes, axRightX)))),
     Ry |-> DeadZoneFilter(StickY(At(st.AxisData, At(cfg.axes, axRightY))))]

\* sm after the four conversions and the four dead-zone tests:
\* the left stick's axes go to Rx and Ry, the right stick's to Lx and Ly
FilteredSticks(cfg, st) ==
    [Rx |-> DeadZoneFilter(StickX(At(st.AxisData, At(cfg.axes, axLeftX)))),
     Ry |-> DeadZoneFilter(StickY(At(st.AxisData, At(cfg.axes, axLeftY)))),
     Lx |-> DeadZoneFilter(StickX(At(st.AxisData, At(cfg.axes, axRightX)))),
     Ly |-> DeadZoneFilter(StickY(At(st.AxisData, At(cfg.axes, axRightY))))]

ScaledSticks(f) ==
    [Lx |-> PrecisionScale(f.Lx), Ly |-> PrecisionScale(f.Ly),
     Rx |-> PrecisionScale(f.Rx), Ry |-> PrecisionScale(f.Ry)]

\* state.Buttons&(1<<jsConfig.buttons[b]) != 0
IsDown(cfg, st, b) == BitSet(st.Buttons, At(cfg.buttons, b))

\* PressedThisCycle without the test of the previous state: level-triggered
PressedLevel(cfg, cur, prev, b) == IsDown(cfg, cur, b)

\* the rising-edge test of every button check
PressedThisCycle(cfg, cur, prev, b) == IsDown(cfg, cur, b) /\ ~IsDown(cfg, prev, b)

\* the falling-edge test, made for R2 only
ReleasedThisCycle(cfg, cur, prev, b) == ~IsDown(cfg, cur, b) /\ IsDown(cfg, prev, b)

(***************************************************************************)
(* The dispatch table of readJoystick.                                     *)
(***************************************************************************)
\* the button checks in the order of the loop body
ButtonChecks ==
    <<btnL1, btnL2, btnR1, btnL3, btnR3, btnSquare, btnTriangle, btnCircle, btnX,
      btnDL, btnDR, btnDU, btnDD>>

\* position in ButtonChecks of the first check inside the flips block
FirstFlipCheck == 10

\* ActionOf with the calls of D-pad Left and D-pad Right exchanged
ActionOfSwapped(b) ==
    CASE b = btnL1 -> "SetSlowMode"
      [] b = btnL2 -> "Bounce"
      [] b = btnR1 -> "SetFastMode"
      [] b = btnSquare -> "GetFlightData"
      [] b = btnTriangle -> "TakeOff"
      [] b = btnCircle -> "TakePicture"
      [] b = btnX -> "Land"
      [] b = btnDL -> "RightFlip"
      [] b = btnDR -> "LeftFlip"
      [] b = btnDU -> "ForwardFlip"
      [] b = btnDD -> "BackFlip"
      [] OTHER -> ""

\* the drone call a pressed button makes in operational mode ("" for none;
\* Square first asks for the flight data)
ActionOf(b) ==
    CASE b = btnL1 -> "SetSlowMode"
      [] b = btnL2 -> "Bounce"
      [] b = btnR1 -> "SetFastMode"
      [] b = btnSquare -> "GetFlightData"
      [] b = btnTriangle -> "TakeOff"
      [] b = btnCircle -> "TakePicture"
      [] b = btnX -> "Land"
      [] b = btnDL -> "LeftFlip"
      [] b = btnDR -> "RightFlip"
      [] b = btnDU -> "ForwardFlip"
      [] b = btnDD -> "BackFlip"
      [] OTHER -> ""

\* PressedText with the lines of L1 and L2 exchanged
PressedTextSwapped(b) ==
    CASE b = btnL1 -> "L2 pressed"
      [] b = btnL2 -> "L1 pressed"
      [] b = btnR1 -> "R1 pressed"
      [] b = btnL3 -> "L3 pressed"
      [] b = btnR3 -> "R3 pressed"
      [] b = btnSquare -> "Square pressed"
      [] b = btnTriangle -> "Triangle pressed"
      [] b = btnCircle -> "Circle pressed"
      [] b = btnX -> "X pressed"
      [] b = btnDL -> "D-Pad Left pressed"
      [] b = btnDR -> "D-Pad Right pressed"
      [] b = btnDU -> "D-Pad Up pressed"
      [] OTHER -> "D-Pad Down pressed"

\* the line a pressed button prints in test mode
PressedText(b) ==
    CASE b = btnL1 -> "L1 pressed"
      [] b = btnL2 -> "L2 pressed"
      [] b = btnR1 -> "R1 pressed"
      [] b = btnL3 -> "L3 pressed"
      [] b = btnR3 -> "R3 pressed"
      [] b = btnSquare -> "Square pressed"
      [] b = btnTriangle -> "Triangle pressed"
      [] b = btnCircle -> "Circle pressed"
      [] b = btnX -> "X pressed"
      [] b = btnDL -> "D-Pad Left pressed"
      [] b = btnDR -> "D-Pad Right pressed"
      [] b = btnDU -> "D-Pad Up pressed"
      [] OTHER -> "D-Pad Down pressed"

(***************************************************************************)
(* The state.                                                              *)
(***************************************************************************)
VARIABLES
    jsTypeFlag,  \* *jsTypeFlag, "" when the option is missing
    goos,        \* runtime.GOOS
    test,        \* the argument of readJoystick: diagnostic mode
    pc,          \* where the program is
    js,          \* the device handle: "none" or "open"
    openCalls,   \* number of calls of joystick.Open made by setupJoystick
    fatal,       \* the log.Fatal that ended the process, "" while it runs
    jsConfig,    \* the selected profile
    jsState,     \* readJoystick: the state of this cycle's read
    prevState,   \* readJoystick: the stored previous state
    err,         \* readJoystick: whether this cycle's read reported an error
    filtered,    \* sm after the dead-zone tests, before the R2 scaling
    sm,          \* the stick message
    bi,          \* position in ButtonChecks of the check to make next
    pending,     \* the drone call that has not returned yet, "" for none
    stickChan,   \* the messages in the channel, oldest first
    cycle,       \* number of completed cycles
    sent,        \* number of stick messages handed to the channel
    recvd,       \* number of stick messages the consumer has taken
    lastRead,    \* the state the previous cycle's read returned
    edges,       \* the buttons whose rising-edge test held, this cycle
    calls,       \* the drone calls made, this cycle: <<button, call>>
    flightData,  \* what GetFlightData returned, this cycle
    printed      \* the lines printed, this cycle

vars ==
    <<jsTypeFlag, goos, test, pc, js, openCalls, fatal, jsConfig, jsState, prevState,
      err, filtered, sm, bi, pending, stickChan, cycle, sent, recvd, lastRead, edges,
      calls, flightData, printed>>

setupVars == <<jsTypeFlag, goos, test>>
loopVars == <<jsState, prevState, err, filtered, sm, bi, pending, lastRead, edges,
              calls, flightData, printed>>
chanVars == <<stickChan, sent, recvd>>

\* the zero value of joystick.State and of tello.StickMessage
zeroState == [AxisData |-> <<>>, Buttons |-> 0]
zeroSticks == [Lx |-> 0, Ly |-> 0, Rx |-> 0, Ry |-> 0]

\* the values of the -jstype option tried: missing, unknown, and the known ones
TypeFlags == {"", "Foo", "DualShock4", "HotasX", "EightBitDoSF30Pro", "SteamController"}

Init ==
    /\ jsTypeFlag \in TypeFlags
    /\ goos \in {"windows", "linux"}
    /\ test \in BOOLEAN
    /\ pc = "setup"
    /\ js = "none"
    /\ openCalls = 0
    /\ fatal = ""
    /\ jsConfig = zeroConfig
    /\ jsState = zeroState
    /\ prevState = zeroState
    /\ err = FALSE
    /\ filtered = zeroSticks
    /\ sm = zeroSticks
    /\ bi = 1
    /\ pending = ""
    /\ stickChan = <<>>
    /\ cycle = 0
    /\ sent = 0
    /\ recvd = 0
    /\ lastRead = zeroState
    /\ edges = <<>>
    /\ calls = <<>>
    /\ flightData = ""
    /\ printed = <<>>

(***************************************************************************)
(* setupJoystick.                                                          *)
(***************************************************************************)
\* the profile the switch assigns, zeroConfig in the default case
SelectProfile(flag, os) ==
    CASE flag = "DualShock4" ->
            IF os = "windows" THEN dualShock4ConfigWin ELSE dualShock4Config
      [] flag = "HotasX" -> tflightHotasXConfig
      [] flag = "EightBitDoSF30Pro" -> eightBitDoSF30Pro
      [] flag = "SteamController" -> tflightSteamControllerConfig
      [] OTHER -> zeroConfig

KnownType(flag) == flag \in {"DualShock4", "HotasX", "EightBitDoSF30Pro", "SteamController"}

\* the test for a missing type, before anything else
CheckTypeSupplied ==
    /\ pc = "setup"
    /\ IF jsTypeFlag = ""
       THEN pc' = "exit" /\ fatal' = "No joystick type supplied"
       ELSE pc' = "open" /\ fatal' = fatal
    /\ UNCHANGED <<setupVars, js, openCalls, jsConfig, loopVars, chanVars, cycle>>

\* joystick.Open(id): the device opens or it does not
OpenJoystick ==
    /\ pc = "open"
    /\ openCalls' = openCalls + 1
    /\ \E ok \in BOOLEAN :
        IF ok
        THEN js' = "open" /\ pc' = "select" /\ fatal' = fatal
        ELSE js' = js /\ pc' = "exit" /\ fatal' = "Could not open specified joystick"
    /\ UNCHANGED <<setupVars, jsConfig, loopVars, chanVars, cycle>>

\* the switch on the type; on return the caller starts readJoystick
SelectConfig ==
    /\ pc = "select"
    /\ IF KnownType(jsTypeFlag)
       THEN /\ jsConfig' = SelectProfile(jsTypeFlag, goos)
            /\ pc' = "read"
            /\ fatal' = fatal
       ELSE /\ jsConfig' = jsConfig
            /\ pc' = "exit"
            /\ fatal' = "Unknown joystick type"
    /\ UNCHANGED <<setupVars, js, openCalls, loopVars, chanVars, cycle>>

(***************************************************************************)
(* What the device is made to return.                                      *)
(***************************************************************************)
\* raw axis readings: rest, around the dead zone, the sentinel, the ends of
\* the library's range, and readings of an unsigned device above 32768
RawVals ==
    <<0, 1999, 0 - 1999, 65535, 0, 2000, 2001, 0 - 2000, 0 - 2001, 32768, 32767,
      0 - 32767, 0 - 32768, 40000, 63535>>

\* AxisData: axis i reads RawVals at s + i (wrapping around)
AxisArray(s) ==
    [i \in 1..NumAxes |-> RawVals[((s + i - 1) % Len(RawVals)) + 1]]

AxisInputs == {AxisArray(s) : s \in 0..(Len(RawVals) - 1)}

\* all axes at rest
AxisRest == {[i \in 1..NumAxes |-> 0]}

\* button masks: none, each single bit, all bits
ButtonInputs == {0} \cup {2 ^ i : i \in 0..MaxBit} \cup {2 ^ (MaxBit + 1) - 1}

\* button masks: none, and the bits 7, 8 and 9 (R2 of every profile)
R2Inputs == {0, 2 ^ 7 + 2 ^ 8 + 2 ^ 9}

(***************************************************************************)
(* readJoystick: one action per step of the loop body.                     *)
(***************************************************************************)
\* js.Read(): any state, with or without an error (the error is only logged)
Read(axisIn, buttonIn, errIn) ==
    /\ pc = "read"
    /\ cycle < MaxCycles
    /\ \E a \in axisIn, b \in buttonIn, e \in errIn :
        /\ jsState' = [AxisData |-> a, Buttons |-> b]
        /\ err' = e
    /\ lastRead' = jsState
    /\ edges' = <<>>
    /\ calls' = <<>>
    /\ flightData' = ""
    /\ printed' = <<>>
    /\ pc' = "normalize"
    /\ UNCHANGED <<setupVars, js, openCalls, fatal, jsConfig, prevState, filtered, sm, bi,
                   pending, chanVars, cycle>>

\* every index of the normalisation is in range
NormalizeInRange(cfg, st) ==
    /\ \A ax \in {axLeftX, axLeftY, axRightX, axRightY} :
          InRange(cfg.axes, ax) /\ InRange(st.AxisData, At(cfg.axes, ax))
    /\ InRange(cfg.buttons, btnR2)

\* what the R2 test prints in test mode
R2Lines(cfg, cur, prev) ==
    IF PressedThisCycle(cfg, cur, prev, btnR2) THEN <<"R2 pressed">>
    ELSE IF ReleasedThisCycle(cfg, cur, prev, btnR2) THEN <<"R2 released">>
    ELSE <<>>

\* the conversions, the dead zone and the R2 scaling
Normalize ==
    /\ pc = "normalize"
    /\ IF NormalizeInRange(jsConfig, jsState)
       THEN /\ filtered' = FilteredSticks(jsConfig, jsState)
            /\ sm' = IF IsDown(jsConfig, jsState, btnR2)
                     THEN ScaledSticks(filtered')
                     ELSE filtered'
            /\ printed' = IF test THEN printed \o R2Lines(jsConfig, jsState, prevState)
                          ELSE printed
            /\ pc' = "handoff"
       ELSE /\ pc' = "panic"
            /\ UNCHANGED <<filtered, sm, printed>>
    /\ UNCHANGED <<setupVars, js, openCalls, fatal, jsConfig, jsState, prevState, err, bi,
                   pending, chanVars, cycle, lastRead, edges, calls, flightData>>

\* HandOff sending, like the print of test mode, only when a stick is not zero
HandOffSkipZero ==
    /\ pc = "handoff"
    /\ IF test
       THEN /\ printed' = IF sm # zeroSticks THEN Append(printed, "JS") ELSE printed
            /\ UNCHANGED chanVars
       ELSE IF sm = zeroSticks
       THEN UNCHANGED <<chanVars, printed>>
       ELSE /\ Len(stickChan) < ChanCap
            /\ stickChan' = Append(stickChan, [sm |-> sm, seq |-> sent + 1])
            /\ sent' = sent + 1
            /\ UNCHANGED <<recvd, printed>>
    /\ pc' = "buttons"
    /\ bi' = 1
    /\ UNCHANGED <<setupVars, js, openCalls, fatal, jsConfig, jsState, prevState, err,
                   filtered, sm, pending, cycle, lastRead, edges, calls, flightData>>

\* HandOff sending to the channel in test mode too
HandOffAlways ==
    /\ pc = "handoff"
    /\ Len(stickChan) < ChanCap
    /\ stickChan' = Append(stickChan, [sm |-> sm, seq |-> sent + 1])
    /\ sent' = sent + 1
    /\ printed' = IF test /\ sm # zeroSticks THEN Append(printed, "JS") ELSE printed
    /\ pc' = "buttons"
    /\ bi' = 1
    /\ UNCHANGED <<setupVars, js, openCalls, fatal, jsConfig, jsState, prevState, err,
                   filtered, sm, pending, cycle, lastRead, edges, calls, flightData, recvd>>

\* HandOff sending without waiting for room in the channel
HandOffNoWait ==
    /\ pc = "handoff"
    /\ IF test
       THEN /\ printed' = IF sm # zeroSticks THEN Append(printed, "JS") ELSE printed
            /\ UNCHANGED chanVars
       ELSE /\ stickChan' = IF Len(stickChan) < ChanCap
                            THEN Append(stickChan, [sm |-> sm, seq |-> sent + 1])
                            ELSE stickChan
            /\ sent' = sent + 1
            /\ UNCHANGED <<recvd, printed>>
    /\ pc' = "buttons"
    /\ bi' = 1
    /\ UNCHANGED <<setupVars, js, openCalls, fatal, jsConfig, jsState, prevState, err,
                   filtered, sm, pending, cycle, lastRead, edges, calls, flightData>>

\* test mode prints the sticks when one is not zero; otherwise stickChan <- sm,
\* which waits while the channel is full
HandOff ==
    /\ pc = "handoff"
    /\ IF test
       THEN /\ printed' = IF sm # zeroSticks THEN Append(printed, "JS") ELSE printed
            /\ UNCHANGED chanVars
       ELSE /\ Len(stickChan) < ChanCap
            /\ stickChan' = Append(stickChan, [sm |-> sm, seq |-> sent + 1])
            /\ sent' = sent + 1
            /\ UNCHANGED <<recvd, printed>>
    /\ pc' = "buttons"
    /\ bi' = 1
    /\ UNCHANGED <<setupVars, js, openCalls, fatal, jsConfig, jsState, prevState, err,
                   filtered, sm, pending, cycle, lastRead, edges, calls, flightData>>

\* the consumer of the channel takes the oldest message
Drain ==
    /\ pc \notin {"exit", "panic"}
    /\ stickChan # <<>>
    /\ stickChan' = Tail(stickChan)
    /\ recvd' = recvd + 1
    /\ UNCHANGED <<setupVars, pc, js, openCalls, fatal, jsConfig, loopVars, sent, cycle>>

\* the number of checks the loop body makes: the flips block is skipped
\* when the profile's flips are off
ChecksMade(cfg) ==
    IF At(cfg.features, flipsEnabled) THEN Len(ButtonChecks) ELSE FirstFlipCheck - 1

\* check i does something: its lookup faults, or its rising-edge test holds
HasEffect(cfg, cur, prev, i) ==
    \/ ~InRange(cfg.buttons, ButtonChecks[i])
    \/ PressedThisCycle(cfg, cur, prev, ButtonChecks[i])

\* the first check from i on that does something, 0 when none does
NextEffect(cfg, cur, prev, i) ==
    LET S == {j \in i..ChecksMade(cfg) : HasEffect(cfg, cur, prev, j)}
    IN IF S = {} THEN 0 ELSE CHOOSE j \in S : \A k \in S : j <= k

\* the button checks from position bi on, up to and including the first one
\* whose lookup faults or whose rising-edge test holds: there the loop
\* panics, prints (test mode) or calls the drone
CheckButtons ==
    /\ pc = "buttons"
    /\ LET j == NextEffect(jsConfig, jsState, prevState, bi)
           b == ButtonChecks[j]
       IN IF j = 0
          THEN /\ pc' = "store"
               /\ UNCHANGED <<bi, edges, calls, printed, pending>>
          ELSE IF ~InRange(jsConfig.buttons, b)
          THEN /\ pc' = "panic"
               /\ bi' = j
               /\ UNCHANGED <<edges, calls, printed, pending>>
          ELSE /\ edges' = Append(edges, b)
               /\ IF test
                  THEN /\ printed' = Append(printed, PressedText(b))
                       /\ pc' = "buttons"
                       /\ bi' = j + 1
                       /\ UNCHANGED <<calls, pending>>
                  ELSE IF ActionOf(b) = ""
                  THEN /\ pc' = "buttons"
                       /\ bi' = j + 1
                       /\ UNCHANGED <<calls, pending, printed>>
                  ELSE /\ pending' = ActionOf(b)
                       /\ calls' = Append(calls, <<b, ActionOf(b)>>)
                       /\ pc' = "call"
                       /\ bi' = j
                       /\ UNCHANGED printed
    /\ UNCHANGED <<setupVars, js, openCalls, fatal, jsConfig, jsState, prevState, err,
                   filtered, sm, chanVars, cycle, lastRead, flightData>>

\* the drone call returns; GetFlightData returns Flying, and the loop then
\* calls PalmLand or ThrowTakeOff
DroneReturn ==
    /\ pc = "call"
    /\ IF pending = "GetFlightData"
       THEN \E f \in {"flying", "grounded"} :
               /\ flightData' = f
               /\ pending' = IF f = "flying" THEN "PalmLand" ELSE "ThrowTakeOff"
               /\ calls' = Append(calls, <<ButtonChecks[bi], pending'>>)
               /\ UNCHANGED <<pc, bi>>
       ELSE /\ pending' = ""
            /\ pc' = "buttons"
            /\ bi' = bi + 1
            /\ UNCHANGED <<calls, flightData>>
    /\ UNCHANGED <<setupVars, js, openCalls, fatal, jsConfig, jsState, prevState, err,
                   filtered, sm, chanVars, cycle, lastRead, edges, printed>>

\* prevState = jsState
StorePrev ==
    /\ pc = "store"
    /\ prevState' = jsState
    /\ pc' = "sleep"
    /\ UNCHANGED <<setupVars, js, openCalls, fatal, jsConfig, jsState, err, filtered, sm,
                   bi, pending, chanVars, cycle, lastRead, edges, calls, flightData, printed>>

\* time.Sleep, then the next iteration
Sleep ==
    /\ pc = "sleep"
    /\ cycle' = cycle + 1
    /\ pc' = "read"
    /\ UNCHANGED <<setupVars, js, openCalls, fatal, jsConfig, loopVars, chanVars>>

\* every step but the read
Step ==
    \/ CheckTypeSupplied
    \/ OpenJoystick
    \/ SelectConfig
    \/ Normalize
    \/ HandOff
    \/ Drain
    \/ CheckButtons
    \/ DroneReturn
    \/ StorePrev
    \/ Sleep

\* the buttons vary, the sticks rest
ReadButtons == Read(AxisRest, ButtonInputs, BOOLEAN)

\* the sticks vary, with R2 up or down; the reads report no error
ReadSticks == Read(AxisInputs, R2Inputs, {FALSE})

Next == ReadButtons \/ Step

NextSticks == ReadSticks \/ Step

\* the buttons vary, with the sticks at rest or deflected; the reads report
\* no error
ReadModes == Read(AxisRest \cup {AxisArray(5)}, ButtonInputs, {FALSE})

NextModes == ReadModes \/ Step

SpecModes == Init /\ [][NextModes]_vars

Spec == Init /\ [][Next]_vars

SpecSticks == Init /\ [][NextSticks]_vars

(***************************************************************************)
(* Vocabulary of the properties.                                           *)
(***************************************************************************)
\* the poll loop has been entered
InLoop == pc \in {"read", "normalize", "handoff", "buttons", "call", "store", "sleep", "panic"}

\* sm holds the output of this cycle's read
AfterNormalize == pc \in {"handoff", "buttons", "call", "store", "sleep"}

\* the logical buttons the loop body examines under a profile
Examined(cfg) == {ButtonChecks[i] : i \in 1..ChecksMade(cfg)}

\* number of occurrences of x in the sequence q
Count(q, x) == Cardinality({i \in DOMAIN q : q[i] = x})

\* number of action calls (the flight-data query is not one) button b made
ActionCalls(b) ==
    Cardinality({i \in DOMAIN calls : calls[i][1] = b /\ calls[i][2] # "GetFlightData"})

\* number of calls of the drone operation op
CallsOf(op) == Cardinality({i \in DOMAIN calls : calls[i][2] = op})

\* the button's bit in the current poll, and in the poll before it (all
\* bits are clear before the first poll)
NowDown(b) == BitSet(jsState.Buttons, At(jsConfig.buttons, b))
WasDown(b) == BitSet(lastRead.Buttons, At(jsConfig.buttons, b))

\* the buttons of the action table
ActionButtons ==
    {btnL1, btnL2, btnR1, btnSquare, btnTriangle, btnCircle, btnX, btnDL, btnDR, btnDU, btnDD}

C2_NoLookupFault ==
    InLoop =>
        /\ \A b \in Examined(jsConfig) \cup {btnR2} : InRange(jsConfig.buttons, b)
        /\ \A ax \in {axLeftX, axLeftY, axRightX, axRightY} : InRange(jsConfig.axes, ax)
        /\ pc # "panic"

(***************************************************************************)
(* C3: under a profile whose flips are off no flip is ever called; under a *)
(* profile whose flips are on, in operational mode, when the dispatch of a *)
(* cycle has ended each flip has been called once if its D-pad button has  *)
(* a rising edge in this cycle and not at all otherwise.                   *)
(***************************************************************************)
Flips == {"LeftFlip", "RightFlip", "ForwardFlip", "BackFlip"}

FlipOf(b) ==
    CASE b = btnDL -> "LeftFlip"
      [] b = btnDR -> "RightFlip"
      [] b = btnDU -> "ForwardFlip"
      [] b = btnDD -> "BackFlip"

C3_FlipsGated ==
    InLoop =>
        IF ~At(jsConfig.features, flipsEnabled)
        THEN (\A f \in Flips : CallsOf(f) = 0) /\ pending \notin Flips
        ELSE (pc \in {"store", "panic"} /\ ~test) =>
                \A b \in {btnDL, btnDR, btnDU, btnDD} :
                    CallsOf(FlipOf(b)) = (IF NowDown(b) /\ ~WasDown(b) THEN 1 ELSE 0)

\* D-pad Left alone went down: LeftFlip is the one call of the cycle
C3_Witness ==
    /\ pc = "store"
    /\ ~test
    /\ At(jsConfig.features, flipsEnabled)
    /\ NowDown(btnDL)
    /\ ~WasDown(btnDL)
    /\ calls = <<<<btnDL, "LeftFlip">>>>

(***************************************************************************)
(* C4: a start-up with a missing or unrecognised type ends with the        *)
(* configuration error, and no joystick.Open has been called.              *)
(***************************************************************************)
C4_ConfigErrorBeforeOpen ==
    (pc = "exit" /\ ~KnownType(jsTypeFlag)) =>
        /\ fatal \in {"No joystick type supplied", "Unknown joystick type"}
        /\ openCalls = 0
        /\ js = "none"

(***************************************************************************)
(* Vocabulary of the stick properties.                                     *)
(***************************************************************************)
StickAxes == {axLeftX, axLeftY, axRightX, axRightY}
XAxes == {axLeftX, axRightX}

\* the raw reading of a logical axis in this cycle's state
Raw(ax) == At(jsState.AxisData, At(jsConfig.axes, ax))

\* the field of a stick message the loop body computes from a logical axis
Field(m, ax) ==
    CASE ax = axLeftX -> m.Rx
      [] ax = axLeftY -> m.Ry
      [] ax = axRightX -> m.Lx
      [] ax = axRightY -> m.Ly

\* raw narrows to a signed 16-bit value of magnitude below 2000: its low 16
\* bits, read as unsigned, are below 2000 or above 65536 - 2000
NarrowsIntoDeadBand(raw) == raw % 65536 < 2000 \/ raw % 65536 > 65536 - 2000

\* o is f divided by 3, truncated toward zero
TruncatedThird(f, o) ==
    IF f >= 0 THEN o >= 0 /\ 3 * o <= f /\ f < 3 * o + 3
    ELSE o <= 0 /\ 3 * o >= f /\ f > 3 * o - 3

(***************************************************************************)
(* C5: once a cycle's sticks are normalised with R2 not down, every stick  *)
(* axis whose raw reading is 32768 has the output 32767 when it is an X    *)
(* axis and -32767 when it is a Y axis, under every profile.               *)
(***************************************************************************)
C5_SentinelClamped ==
    (AfterNormalize /\ ~NowDown(btnR2)) =>
        \A ax \in StickAxes :
            Raw(ax) = 32768 =>
                Field(sm, ax) = (IF ax \in XAxes THEN 32767 ELSE 0 - 32767)

\* the non-Windows DualShock4 profile, LeftY at the sentinel
C5_Witness ==
    /\ AfterNormalize
    /\ jsConfig = dualShock4Config
    /\ ~NowDown(btnR2)
    /\ Raw(axLeftY) = 32768
    /\ sm.Ry = 0 - 32767

(***************************************************************************)
(* C6 as claimed: under the non-Windows DualShock4 profile with R2 not     *)
(* down, a raw LeftX of 32768 gives Lx = 32767.                            *)
(***************************************************************************)
C6_LeftXToLx ==
    (AfterNormalize /\ jsConfig = dualShock4Config /\ ~NowDown(btnR2)
        /\ Raw(axLeftX) = 32768) => sm.Lx = 32767

(***************************************************************************)
(* C6 amended: under the non-Windows DualShock4 profile with R2 not down,  *)
(* a raw LeftX of 32768 gives Rx = 32767; under every profile the logical  *)
(* left-stick axes (LeftX, LeftY) determine Rx and Ry and the logical      *)
(* right-stick axes (RightX, RightY) determine Lx and Ly: each field is    *)
(* the conversion, dead zone and R2 scaling of that one axis's reading.    *)
(***************************************************************************)
OutputOf(ax) ==
    LET v == IF ax \in XAxes THEN StickX(Raw(ax)) ELSE StickY(Raw(ax))
        f == DeadZoneFilter(v)
    IN IF NowDown(btnR2) THEN PrecisionScale(f) ELSE f

C6_LeftStickToRxRy ==
    AfterNormalize =>
        /\ (jsConfig = dualShock4Config /\ ~NowDown(btnR2) /\ Raw(axLeftX) = 32768)
              => sm.Rx = 32767
        /\ sm.Rx = OutputOf(axLeftX)
        /\ sm.Ry = OutputOf(axLeftY)
        /\ sm.Lx = OutputOf(axRightX)
        /\ sm.Ly = OutputOf(axRightY)

\* LeftX at the sentinel and RightX not: Rx is 32767 and Lx is not
C6_Witness ==
    /\ AfterNormalize
    /\ jsConfig = dualShock4Config
    /\ ~NowDown(btnR2)
    /\ Raw(axLeftX) = 32768
    /\ sm.Rx = 32767
    /\ sm.Lx # 32767

(***************************************************************************)
(* C7: once a cycle's sticks are normalised, every axis whose reading,     *)
(* narrowed to 16 bits (and inverted for a Y axis), has a magnitude below  *)
(* 2000 has the output 0, whatever the other axes read and whether or not  *)
(* R2 is down.                                                             *)
(***************************************************************************)
C7_DeadZoneZero ==
    AfterNormalize =>
        \A ax \in StickAxes :
            NarrowsIntoDeadBand(Raw(ax)) => Field(sm, ax) = 0

\* LeftX reads 65535 (-1 once narrowed) and is zeroed, with R2 down and the
\* right stick deflected
C7_Witness ==
    /\ AfterNormalize
    /\ NowDown(btnR2)
    /\ Raw(axLeftX) = 65535
    /\ sm.Rx = 0
    /\ sm.Lx # 0
    /\ sm.Ly # 0

(***************************************************************************)
(* C8: once a cycle's sticks are normalised, with the R2 bit set in the    *)
(* cycle's bitmask each output is the dead-zone-filtered value divided by  *)
(* 3 and truncated toward zero (2001 gives 667, -2001 gives -667), and     *)
(* with the R2 bit clear each output is the filtered value itself,         *)
(* whatever the poll before had.                                           *)
(***************************************************************************)
C8_PrecisionScaling ==
    AfterNormalize =>
        \A ax \in StickAxes :
            LET f == Field(filtered, ax)
                o == Field(sm, ax)
            IN IF NowDown(btnR2)
               THEN /\ TruncatedThird(f, o)
                    /\ f = 2001 => o = 667
                    /\ f = 0 - 2001 => o = 0 - 667
               ELSE o = f

\* R2 was down in the poll before and is up now: the outputs are unscaled
C8_Witness ==
    /\ AfterNormalize
    /\ cycle >= 1
    /\ WasDown(btnR2)
    /\ ~NowDown(btnR2)
    /\ filtered.Rx = 0 - 2001
    /\ sm.Rx = 0 - 2001

(***************************************************************************)
(* C9: in operational mode, when the dispatch of a cycle with a rising     *)
(* edge of Square has ended, GetFlightData has been called once, and then  *)
(* PalmLand and not ThrowTakeOff if it returned flying, ThrowTakeOff and   *)
(* not PalmLand if it did not.                                             *)
(***************************************************************************)
C9_SquareBranches ==
    (pc \in {"store", "panic"} /\ ~test /\ InRange(jsConfig.buttons, btnSquare)
        /\ NowDown(btnSquare) /\ ~WasDown(btnSquare)) =>
        /\ CallsOf("GetFlightData") = 1
        /\ flightData = "flying" => (CallsOf("PalmLand") = 1 /\ CallsOf("ThrowTakeOff") = 0)
        /\ flightData = "grounded" => (CallsOf("ThrowTakeOff") = 1 /\ CallsOf("PalmLand") = 0)
        /\ flightData # ""

(***************************************************************************)
(* C10: in operational mode the number of stick messages handed to the     *)
(* channel is the number of completed cycles, plus one once the running    *)
(* cycle has passed its hand-off: every cycle hands off exactly one, a     *)
(* message of zeros included; the message carries the cycle's sticks, and  *)
(* the channel holds, oldest first, exactly the messages handed off and    *)
(* not yet taken, so that the consumer takes them in poll order.           *)
(***************************************************************************)
PastHandOff == pc \in {"buttons", "call", "store", "sleep", "panic"}

C11_DiagnosticCallsNothing ==
    test =>
        /\ calls = <<>>
        /\ pending = ""
        /\ pc # "call"
        /\ flightData = ""
        /\ sent = 0
        /\ stickChan = <<>>

\* test mode, every bit down in a first poll under a profile with flips:
\* thirteen pressed lines printed, nothing called, nothing sent
C11_Witness ==
    /\ test
    /\ pc = "store"
    /\ Len(edges) = Len(ButtonChecks)
    /\ Count(printed, "Square pressed") = 1
    /\ Count(printed, "D-Pad Down pressed") = 1
    /\ calls = <<>>
    /\ sent = 0

(***************************************************************************)
(* C12: a cycle whose read reported an error does not end the poll loop:   *)
(* the process neither exits nor panics in it, so that the cycle runs on   *)
(* to its store and sleep and the next read.                               *)
(***************************************************************************)
C12_ReadErrorKeepsLooping ==
    (InLoop /\ err) => pc \notin {"exit", "panic"}

\* what remains true of the code: away from the two profiles whose R3
\* lookup faults, a cycle whose read reported an error never ends the loop
C12_OffFault ==
    (InLoop /\ err /\ jsConfig \notin {dualShock4Config, dualShock4ConfigWin})
        => pc \notin {"exit", "panic"}

(***************************************************************************)
(* C13: in operational mode, when the dispatch of a cycle has ended, every *)
(* examined button of the action table with a rising edge has made exactly *)
(* the call of the table, once (Square: the flight-data query and then     *)
(* PalmLand or ThrowTakeOff), a button without a rising edge has made no   *)
(* call, L3 and R3 have made none, and no call is attributed to R2.        *)
(***************************************************************************)
TableAction(b) ==
    CASE b = btnL1 -> {"SetSlowMode"}
      [] b = btnL2 -> {"Bounce"}
      [] b = btnR1 -> {"SetFastMode"}
      [] b = btnSquare -> {"PalmLand", "ThrowTakeOff"}
      [] b = btnTriangle -> {"TakeOff"}
      [] b = btnCircle -> {"TakePicture"}
      [] b = btnX -> {"Land"}
      [] b = btnDL -> {"LeftFlip"}
      [] b = btnDR -> {"RightFlip"}
      [] b = btnDU -> {"ForwardFlip"}
      [] b = btnDD -> {"BackFlip"}
      [] OTHER -> {}

\* the calls button b made, the flight-data query left out
CallsBy(b) ==
    {i \in DOMAIN calls : calls[i][1] = b /\ calls[i][2] # "GetFlightData"}

DispatchAsTable(b) ==
    IF NowDown(b) /\ ~WasDown(b) /\ b \in ActionButtons
    THEN /\ Cardinality(CallsBy(b)) = 1
         /\ \A i \in CallsBy(b) : calls[i][2] \in TableAction(b)
         /\ Count(calls, <<b, "GetFlightData">>) = (IF b = btnSquare THEN 1 ELSE 0)
    ELSE \A i \in DOMAIN calls : calls[i][1] # b

C13_ActionTable ==
    (pc \in {"store", "panic"} /\ ~test) =>
        /\ \A b \in Examined(jsConfig) :
              InRange(jsConfig.buttons, b) => DispatchAsTable(b)
        /\ \A i \in DOMAIN calls : calls[i][1] \in Examined(jsConfig) \ {btnL3, btnR3}

\* what remains true of the code: the same in the cycles that do not fault
C13_OffFault == pc # "panic" => C13_ActionTable

(***************************************************************************)
(* C14: the two modes compute the same from the same input.  In either     *)
(* mode the four sticks are the same function of the profile and the       *)
(* cycle's raw state; and when the dispatch of a cycle has ended, for      *)
(* every button of the action table, test mode has printed the button's    *)
(* pressed line exactly when (and then once), and operational mode has     *)
(* called the button's action exactly when (and then once), one and the    *)
(* same condition on the profile, this poll and the poll before holds: the *)
(* button is examined, no lookup up to its check faults, and its bit went  *)
(* from clear to set.                                                      *)
(***************************************************************************)
DiagLine(b) ==
    CASE b = btnL1 -> "L1 pressed"
      [] b = btnL2 -> "L2 pressed"
      [] b = btnR1 -> "R1 pressed"
      [] b = btnSquare -> "Square pressed"
      [] b = btnTriangle -> "Triangle pressed"
      [] b = btnCircle -> "Circle pressed"
      [] b = btnX -> "X pressed"
      [] b = btnDL -> "D-Pad Left pressed"
      [] b = btnDR -> "D-Pad Right pressed"
      [] b = btnDU -> "D-Pad Up pressed"
      [] b = btnDD -> "D-Pad Down pressed"

\* position of the check of button b in the loop body
CheckPos(b) == CHOOSE i \in 1..Len(ButtonChecks) : ButtonChecks[i] = b

\* the mode-independent condition
EdgeSeen(b) ==
    /\ b \in Examined(jsConfig)
    /\ \A i \in 1..CheckPos(b) : InRange(jsConfig.buttons, ButtonChecks[i])
    /\ NowDown(b)
    /\ ~WasDown(b)

C14_ModesAgree ==
    /\ AfterNormalize =>
          sm = [Rx |-> OutputOf(axLeftX), Ry |-> OutputOf(axLeftY),
                Lx |-> OutputOf(axRightX), Ly |-> OutputOf(axRightY)]
    /\ pc \in {"store", "panic"} =>
          \A b \in ActionButtons :
              IF test
              THEN Count(printed, DiagLine(b)) = (IF EdgeSeen(b) THEN 1 ELSE 0)
              ELSE ActionCalls(b) = (IF EdgeSeen(b) THEN 1 ELSE 0)

\* test mode, sticks deflected, Triangle's line printed on its rising edge
C14_Witness ==
    /\ test
    /\ pc = "store"
    /\ sm.Rx # 0
    /\ EdgeSeen(btnTriangle)
    /\ Count(printed, "Triangle pressed") = 1

(***************************************************************************)
(* C15: every stick value the loop computes, and every value of every      *)
(* message handed to the channel, lies in -32767..32767, for either state  *)
(* of R2; and the conversion, dead zone and scaling of every raw reading   *)
(* in -32768..65535, as an X axis and as a Y axis, lies in that range.     *)
(***************************************************************************)
InStickRange(v) == v >= 0 - 32767 /\ v <= 32767

SticksInRange(m) ==
    InStickRange(m.Lx) /\ InStickRange(m.Ly) /\ InStickRange(m.Rx) /\ InStickRange(m.Ry)

C15_OutputRange ==
    /\ SticksInRange(sm)
    /\ \A i \in DOMAIN stickChan : SticksInRange(stickChan[i].sm)
    /\ (pc = "setup" /\ jsTypeFlag = "" /\ ~test /\ goos = "linux") =>
          \A raw \in (0 - 32768)..65535 :
              /\ InStickRange(DeadZoneFilter(StickX(raw)))
              /\ InStickRange(DeadZoneFilter(StickY(raw)))
              /\ InStickRange(PrecisionScale(DeadZoneFilter(StickX(raw))))
              /\ InStickRange(PrecisionScale(DeadZoneFilter(StickY(raw))))

\* a message is in the channel whose cycle read -32768 on one axis and the
\* sentinel on another
C15_Witness ==
    /\ ~test
    /\ PastHandOff
    /\ stickChan # <<>>
    /\ stickChan[Len(stickChan)].sm = sm
    /\ \E ax \in StickAxes : Raw(ax) = 0 - 32768 /\ Field(sm, ax) = 0
    /\ \E ax \in StickAxes : Raw(ax) = 32768 /\ Field(sm, ax) \in {32767, 0 - 32767}

(***************************************************************************)
(* C16: every poll cycle runs read, normalize, hand-off, edge detection    *)
(* and dispatch, store of the previous state, sleep, and then reads again: *)
(* the loop's position only ever moves along that order; in operational    *)
(* mode a cycle's message is handed off before any of its action calls;    *)
(* the calls of a cycle follow the order of the button checks; and the     *)
(* previous state changes only in the store step, which every dispatch     *)
(* reaches.                                                                *)
(***************************************************************************)
LoopOrder ==
    {<<"read", "normalize">>, <<"normalize", "handoff">>, <<"handoff", "buttons">>,
     <<"buttons", "call">>, <<"call", "buttons">>, <<"buttons", "store">>,
     <<"store", "sleep">>, <<"sleep", "read">>}

\* the same with the exit of the loop through a faulting lookup
LoopOrderWithFault == LoopOrder \cup {<<"normalize", "panic">>, <<"buttons", "panic">>}

CallsInCheckOrder ==
    \A i, j \in DOMAIN calls :
        i < j => CheckPos(calls[i][1]) <= CheckPos(calls[j][1])

HandOffBeforeCalls ==
    (~test /\ pc \in {"buttons", "call", "store", "panic"}) => sent = cycle + 1

PrevWrittenInStore == prevState' # prevState => (pc = "store" /\ pc' = "sleep")

StepsFollow(order) == (InLoop /\ pc' # pc) => <<pc, pc'>> \in order

C16_StepOrder ==
    /\ [](CallsInCheckOrder /\ HandOffBeforeCalls)
    /\ [][StepsFollow(LoopOrder) /\ PrevWrittenInStore]_vars

\* C16 with the faulting exit admitted
C16_OffFault ==
    /\ [](CallsInCheckOrder /\ HandOffBeforeCalls)
    /\ [][StepsFollow(LoopOrderWithFault) /\ PrevWrittenInStore]_vars

(***************************************************************************)
(* C17: while the hand-off waits on a full channel, or a drone call has    *)
(* not returned, no step reads the device, detects an edge, issues a       *)
(* further call or writes the previous state (so a press and release that  *)
(* no read returns yields no edge and no call: edges are differences of    *)
(* two consecutive read results only); when the hand-off or the call       *)
(* completes, the loop goes on with the button checks of the same cycle.   *)
(***************************************************************************)
HandOffBlocked == pc = "handoff" /\ ~test /\ Len(stickChan) >= ChanCap

CallOutstanding == pc = "call"

C17_Stall ==
    /\ HandOffBlocked =>
          UNCHANGED <<pc, jsState, prevState, lastRead, edges, calls, cycle, bi, sm, sent>>
    /\ CallOutstanding =>
          /\ UNCHANGED <<jsState, prevState, lastRead, edges, cycle, sm, sent>>
          /\ calls' # calls => (pending = "GetFlightData" /\ pc' = "call" /\ bi' = bi)
          /\ pc' # pc => (pc' = "buttons" /\ bi' = bi + 1 /\ pending' = "")
    /\ (pc = "handoff" /\ pc' # pc) =>
          /\ pc' = "buttons"
          /\ bi' = 1
          /\ UNCHANGED <<jsState, prevState, lastRead, edges, calls, cycle, sm>>
          /\ ~test => (sent' = sent + 1 /\ Len(stickChan) < ChanCap)
    /\ edges' # edges =>
          (edges' = <<>> \/
             LET b == edges'[Len(edges')]
             IN pc = "buttons" /\ prevState = lastRead /\ NowDown(b) /\ ~WasDown(b))

C17_StallHoldsLoop == [][C17_Stall]_vars

\* the second cycle's hand-off waits on a full channel while the read of
\* that cycle holds a button that was up in the read before
C17_Witness ==
    /\ HandOffBlocked
    /\ cycle >= 1
    /\ NowDown(btnTriangle)
    /\ ~WasDown(btnTriangle)
    /\ edges = <<>>

(***************************************************************************)
(* C18: under the selected profile no two of the logical buttons the loop  *)
(* examines (R2 and the buttons of the checks) resolve to the same bit of  *)
(* the button mask; and when the dispatch of a cycle has ended, every bit  *)
(* that went from clear to set accounts for at most one pressed edge.      *)
(***************************************************************************)
LooksUp(cfg) == Examined(cfg) \cup {btnR2}

Aliased(cfg) ==
    {p \in LooksUp(cfg) \X LooksUp(cfg) :
        /\ p[1] < p[2]
        /\ InRange(cfg.buttons, p[1])
        /\ InRange(cfg.buttons, p[2])
        /\ At(cfg.buttons, p[1]) = At(cfg.buttons, p[2])}

EdgesOfBit(i) ==
    Cardinality({k \in DOMAIN edges : At(jsConfig.buttons, edges[k]) = i})

C18_NoAliasing ==
    /\ InLoop => Aliased(jsConfig) = {}
    /\ pc \in {"store", "panic"} => \A i \in 0..MaxBit : EdgesOfBit(i) <= 1

\* the profiles without two logical buttons on one bit
C18_AliasFree == InLoop => (Aliased(jsConfig) = {} <=> jsConfig \in {tflightHotasXConfig, tflightSteamControllerConfig})

\* the aliased pairs of each profile
C18_AliasedPairs ==
    /\ Aliased(dualShock4Config) = {<<btnX, btnL3>>}
    /\ Aliased(dualShock4ConfigWin) = {<<btnSquare, btnL3>>}
    /\ Aliased(eightBitDoSF30Pro) = {<<btnX, btnL3>>, <<btnX, btnR3>>, <<btnL3, btnR3>>}

(***************************************************************************)
(* C19: once a cycle's sticks are normalised with R2 not down, every stick *)
(* axis whose converted value v (narrowed and, for a Y axis, inverted) has *)
(* a magnitude of 2000 or more, v = -32768 included, has the output v,     *)
(* which is not zero.                                                      *)
(***************************************************************************)
Converted(ax) == IF ax \in XAxes THEN StickX(Raw(ax)) ELSE StickY(Raw(ax))

OutsideDeadZone(v) == v <= 0 - deadZone \/ v >= deadZone

C19_DeadZoneOnlyBelow ==
    (AfterNormalize /\ ~NowDown(btnR2)) =>
        \A ax \in StickAxes :
            OutsideDeadZone(Converted(ax)) =>
                (Field(sm, ax) = Converted(ax) /\ Field(sm, ax) # 0)

\* C19 for every converted value but -32768, and what -32768 becomes
C19_OffExtreme ==
    (AfterNormalize /\ ~NowDown(btnR2)) =>
        \A ax \in StickAxes :
            /\ (OutsideDeadZone(Converted(ax)) /\ Converted(ax) # 0 - 32768) =>
                  (Field(sm, ax) = Converted(ax) /\ Field(sm, ax) # 0)
            /\ Converted(ax) = 0 - 32768 => Field(sm, ax) = 0

(***************************************************************************)
(* C20: before the first cycle the previous state is the all-zero state;   *)
(* from the read of a cycle to its store, the previous state is the result *)
(* of the read before (error or not), so the edge tests compare against    *)
(* exactly that; after the store it is the result of the cycle's own read; *)
(* and when the dispatch of the first cycle has ended, every examined      *)
(* button that the first read reports down has one pressed edge.           *)
(***************************************************************************)
PrevTracksReads ==
    /\ pc \in {"setup", "open", "select", "exit"} => prevState = zeroState
    /\ (InLoop /\ cycle = 0 /\ pc \notin {"sleep"}) => prevState = zeroState
    /\ pc \in {"normalize", "handoff", "buttons", "call", "store", "panic"} =>
          prevState = lastRead
    /\ (pc = "sleep" \/ (pc = "read" /\ cycle >= 1)) => prevState = jsState

DownAtFirstPollGivesEdge(ended) ==
    (cycle = 0 /\ pc \in ended) =>
        \A b \in Examined(jsConfig) :
            (InRange(jsConfig.buttons, b) /\ NowDown(b)) => Count(edges, b) = 1

C20_PrevIsLastRead == PrevTracksReads /\ DownAtFirstPollGivesEdge({"store", "panic"})

\* C20 for the cycles whose dispatch reaches the store
C20_OffFault == PrevTracksReads /\ DownAtFirstPollGivesEdge({"store"})

====
